---- MODULE Spec2Model ----
(***************************************************************************)
(* One-time print authorisation: the print_jobs table, the verify_otp      *)
(* stored procedure run by concurrent callers under a row lock, and the   *)
(* read paths over the table.                                              *)
(***************************************************************************)
EXTENDS Integers, Sequences, FiniteSets, Bags, TLC

(* ------------------------------ bounds -------------------------------- *)

\* Total number of verify_otp calls started in one behaviour.
MaxCalls == 4

\* The same, in behaviours where more than one job has been uploaded.
MaxCallsShared == 2

\* Number of verify_otp calls that name an id no job has.
MaxUnknownCalls == 1

\* The clock stops advancing at this many minutes.
MaxTime == 31

\* Number of verify_otp calls started in a behaviour that also reads.
MaxCallsRead == 3

\* The same, in behaviours where more than one job has been uploaded.
MaxCallsReadShared == 1

(* ------------------------- program constants -------------------------- *)

\* max_otp_attempts INTEGER NOT NULL DEFAULT 3
DefaultMaxOtpAttempts == 3

\* expires_at ... DEFAULT (now() + interval '30 minutes')
ExpiryMinutes == 30

\* CHECK (copies >= 1 AND copies <= 50)
MinCopies == 1
MaxCopies == 50

(* ------------------------------ inputs -------------------------------- *)

\* gen_random_uuid() for the id column: the ids in the order they are drawn.
JobSeq == <<"j1", "j2">>
JobIds == {JobSeq[i] : i \in 1..Len(JobSeq)}

\* A well-formed id that no row of the table has.
UnknownId == "j0"

\* Six-digit secrets: generateOTP() draws one per upload, and a caller of
\* verify_otp supplies one. The two differ in a single character.
Otps == {"123456", "123457"}

\* What the OTP field holds after five digits were typed.
ShortOtp == "12345"

\* The characters of these secrets.
Digits ==
    ("123456" :> <<1, 2, 3, 4, 5, 6>>) @@ ("123457" :> <<1, 2, 3, 4, 5, 7>>) @@
    ("12345" :> <<1, 2, 3, 4, 5>>)

Sessions == {"s1", "s2"}

DEFAULT_PRINT_SETTINGS ==
    [copies |-> 1, colorMode |-> "color", paperSize |-> "A4", orientation |-> "portrait"]

\* The uploads the dashboard submits: a file, its settings, the session and the
\* secret generateOTP() drew for it.
Uploads ==
    { [name |-> "a.png", type |-> "image/png", ext |-> "png", session |-> "s1",
       otp |-> "123456", settings |-> DEFAULT_PRINT_SETTINGS],
      [name |-> "b.pdf", type |-> "application/pdf", ext |-> "pdf", session |-> "s2",
       otp |-> "123457",
       settings |-> [copies |-> 2, colorMode |-> "bw", paperSize |-> "Letter",
                     orientation |-> "landscape"]] }

\* A nullable column holds <<>> (NULL) or <<v>>.
NULL == <<>>

(* ------------------------------- state -------------------------------- *)

VARIABLES
    jobs,      \* the print_jobs table: job id -> committed row
    waiting,   \* bag of verify_otp calls whose transaction has started
    locked,    \* bag of verify_otp calls that selected their row FOR UPDATE
    done,      \* bag of verify_otp calls that returned, with their results
    started,   \* number of verify_otp calls started so far
    contended, \* job id -> most calls ever seen waiting behind one lock holder
    now,       \* the database clock, in minutes
    files,     \* the print-files storage bucket: object path -> uploaded file
    reply,     \* the last request to a read path, and the response it was sent
    page,      \* the React state of the open print page (PrintPage)
    dashboard  \* the React state of the owner's dashboard (usePrintJobs, PreviewModal)

vars == <<jobs, waiting, locked, done, started, contended, now, files, reply,
          page, dashboard>>

Put(bag, e) == bag (+) SetToBag({e})
Take(bag, e) == bag (-) SetToBag({e})

\* Number of calls in a bag that are copies of a member of S.
CountIn(bag, S) == BagCardinality([e \in S \cap BagToSet(bag) |-> bag[e]])

\* Number of calls in a bag that name job_id.
CallsOn(bag, job_id) == CountIn(bag, {e \in BagToSet(bag) : e.job_id = job_id})

(* --------------------------- pure functions --------------------------- *)

\* otp_value::bytea, and new TextEncoder().encode(otp): the character codes of
\* a string of digits.
Bytes(text) == [i \in DOMAIN Digits[text] |-> 48 + Digits[text][i]]

\* SHA-256 in lower-case hex: a one-way digest, modelled as an injective
\* tagging of the bytes.
sha256(bytes) == <<"sha256", bytes>>

\* A digest of the first five characters only.
hash_otp_FirstFive(otp_value) == sha256(SubSeq(Bytes(otp_value), 1, 5))

\* encode(sha256(otp_value::bytea), 'hex')
hash_otp(otp_value) == sha256(Bytes(otp_value))

\* crypto.subtle.digest('SHA-256', encoder.encode(otp)), bytes in hex.
hashOTP(otp) == sha256(Bytes(otp))

\* gen_random_uuid() for a job's access_token: the n-th value drawn for the job.
AccessToken(id, n) == [job |-> id, gen |-> n]

\* `${sessionId}/${crypto.randomUUID()}.${fileExt}`
FilePath(session, id, ext) == <<session, id, ext>>

(* ------------------------------ creation ------------------------------ *)

\* The row INSERTed by createJob, column DEFAULTs filled in by the table.
NewRow(id, up, t) ==
    [ id |-> id,
      file_name |-> up.name,
      file_path |-> FilePath(up.session, id, up.ext),
      file_type |-> up.type,
      copies |-> up.settings.copies,
      color_mode |-> up.settings.colorMode,
      paper_size |-> up.settings.paperSize,
      orientation |-> up.settings.orientation,
      otp_hash |-> hash_otp(up.otp),
      otp_plain |-> up.otp,
      access_token |-> AccessToken(id, 0),
      status |-> "pending",
      otp_attempts |-> 0,
      max_otp_attempts |-> DefaultMaxOtpAttempts,
      created_at |-> t,
      expires_at |-> t + ExpiryMinutes,
      printed_at |-> NULL,
      session_id |-> up.session ]

\* The CHECK constraints without the one on copies.
RowChecks_NoCopiesBound(row) ==
    /\ row.color_mode \in {"color", "bw"}
    /\ row.paper_size \in {"A4", "A3", "Letter", "Legal"}
    /\ row.orientation \in {"portrait", "landscape"}

\* The table's CHECK constraints.
RowChecks(row) ==
    /\ row.copies >= MinCopies /\ row.copies <= MaxCopies
    /\ row.color_mode \in {"color", "bw"}
    /\ row.paper_size \in {"A4", "A3", "Letter", "Legal"}
    /\ row.orientation \in {"portrait", "landscape"}

\* usePrintJobs.createJob: generate the OTP, hash it, upload, insert.
CreateJob(up) ==
    /\ Cardinality(DOMAIN jobs) < Len(JobSeq)
    /\ Cardinality(DOMAIN jobs) >= 1 => started <= MaxCallsShared
    /\ LET id == JobSeq[Cardinality(DOMAIN jobs) + 1] IN
       /\ RowChecks(NewRow(id, up, now))
       /\ files' = [p \in DOMAIN files \cup {FilePath(up.session, id, up.ext)} |->
                      IF p = FilePath(up.session, id, up.ext) THEN up.name ELSE files[p]]
       /\ jobs' = [j \in DOMAIN jobs \cup {id} |->
                     IF j = id THEN NewRow(id, up, now) ELSE jobs[j]]
    /\ UNCHANGED <<waiting, locked, done, started, contended, now, reply, page, dashboard>>

(* -------------------------------- clock ------------------------------- *)

\* The instants at which a comparison with some job's expires_at changes: the
\* expiry itself and the minute after it.
Instants == UNION {{jobs[j].expires_at, jobs[j].expires_at + 1} : j \in DOMAIN jobs}

Tick(t) ==
    /\ t \in Instants
    /\ t > now
    /\ t <= MaxTime
    /\ now' = t
    /\ UNCHANGED <<jobs, waiting, locked, done, started, contended, files, reply, page, dashboard>>

(* ----------------------------- verify_otp ----------------------------- *)

VerifyBranch_NoPrintedCheck(job_record, provided_otp, tnow) ==
    IF job_record.status = "locked" THEN "already_locked"
    ELSE IF job_record.status = "expired" THEN "already_expired"
    ELSE IF job_record.expires_at < tnow THEN "expire"
    ELSE IF hash_otp(provided_otp) = job_record.otp_hash THEN "match"
    ELSE "mismatch"

VerifyBranch_NoLockedCheck(job_record, provided_otp, tnow) ==
    IF job_record.status = "printed" THEN "already_printed"
    ELSE IF job_record.status = "expired" THEN "already_expired"
    ELSE IF job_record.expires_at < tnow THEN "expire"
    ELSE IF hash_otp(provided_otp) = job_record.otp_hash THEN "match"
    ELSE "mismatch"

VerifyBranch_NoExpiredCheck(job_record, provided_otp, tnow) ==
    IF job_record.status = "printed" THEN "already_printed"
    ELSE IF job_record.status = "locked" THEN "already_locked"
    ELSE IF hash_otp(provided_otp) = job_record.otp_hash THEN "match"
    ELSE IF job_record.expires_at < tnow THEN "expire"
    ELSE "mismatch"

VerifyBranch_LockedAfterSecret(job_record, provided_otp, tnow) ==
    IF job_record.status = "printed" THEN "already_printed"
    ELSE IF job_record.status = "expired" THEN "already_expired"
    ELSE IF hash_otp(provided_otp) = job_record.otp_hash THEN "match"
    ELSE IF job_record.status = "locked" THEN "already_locked"
    ELSE IF job_record.expires_at < tnow THEN "expire"
    ELSE "mismatch"

VerifyBranch_SecretFirst(job_record, provided_otp, tnow) ==
    IF job_record.status = "printed" THEN "already_printed"
    ELSE IF job_record.status = "locked" THEN "already_locked"
    ELSE IF job_record.status = "expired" THEN "already_expired"
    ELSE IF hash_otp(provided_otp) = job_record.otp_hash THEN "match"
    ELSE IF job_record.expires_at < tnow THEN "expire"
    ELSE "mismatch"

\* The expiry test ahead of the status checks.
VerifyBranch_ExpiryFirst(job_record, provided_otp, tnow) ==
    IF job_record.expires_at < tnow THEN "expire"
    ELSE IF job_record.status = "printed" THEN "already_printed"
    ELSE IF job_record.status = "locked" THEN "already_locked"
    ELSE IF job_record.status = "expired" THEN "already_expired"
    ELSE IF hash_otp(provided_otp) = job_record.otp_hash THEN "match"
    ELSE "mismatch"

\* The branch verify_otp takes on the row it selected, in the order of its IFs.
\* tnow is now(): the start time of the call's transaction.
VerifyBranch(job_record, provided_otp, tnow) ==
    IF job_record.status = "printed" THEN "already_printed"
    ELSE IF job_record.status = "locked" THEN "already_locked"
    ELSE IF job_record.status = "expired" THEN "already_expired"
    ELSE IF job_record.expires_at < tnow THEN "expire"
    ELSE IF hash_otp(provided_otp) = job_record.otp_hash THEN "match"
    ELSE "mismatch"

FailedStatus_StrictlyAbove(row) ==
    IF row.otp_attempts + 1 > row.max_otp_attempts THEN "locked" ELSE row.status

\* status = CASE WHEN otp_attempts + 1 >= max_otp_attempts THEN 'locked' ELSE status END
FailedStatus(row) ==
    IF row.otp_attempts + 1 >= row.max_otp_attempts THEN "locked" ELSE row.status

VerifyUpdate_CountsEveryFailure(row, branch, tnow) ==
    CASE branch = "expire" ->
           [row EXCEPT !.status = "expired"]
      [] branch = "match" ->
           [row EXCEPT !.status = "printed",
                       !.printed_at = <<tnow>>,
                       !.access_token = AccessToken(row.id, row.access_token.gen + 1)]
      [] OTHER ->
           [row EXCEPT !.otp_attempts = row.otp_attempts + 1,
                       !.status = FailedStatus(row)]

VerifyUpdate_ExpiryCounts(row, branch, tnow) ==
    CASE branch = "expire" ->
           [row EXCEPT !.status = "expired",
                       !.otp_attempts = row.otp_attempts + 1]
      [] branch = "match" ->
           [row EXCEPT !.status = "printed",
                       !.printed_at = <<tnow>>,
                       !.access_token = AccessToken(row.id, row.access_token.gen + 1)]
      [] branch = "mismatch" ->
           [row EXCEPT !.otp_attempts = row.otp_attempts + 1,
                       !.status = FailedStatus(row)]
      [] OTHER -> row

VerifyUpdate_CountsSuccess(row, branch, tnow) ==
    CASE branch = "expire" ->
           [row EXCEPT !.status = "expired"]
      [] branch = "match" ->
           [row EXCEPT !.status = "printed",
                       !.printed_at = <<tnow>>,
                       !.otp_attempts = row.otp_attempts + 1,
                       !.access_token = AccessToken(row.id, row.access_token.gen + 1)]
      [] branch = "mismatch" ->
           [row EXCEPT !.otp_attempts = row.otp_attempts + 1,
                       !.status = FailedStatus(row)]
      [] OTHER -> row

VerifyUpdate_NoRotation(row, branch, tnow) ==
    CASE branch = "expire" ->
           [row EXCEPT !.status = "expired"]
      [] branch = "match" ->
           [row EXCEPT !.status = "printed",
                       !.printed_at = <<tnow>>]
      [] branch = "mismatch" ->
           [row EXCEPT !.otp_attempts = row.otp_attempts + 1,
                       !.status = FailedStatus(row)]
      [] OTHER -> row

\* A success that also wipes the plaintext secret, a failure that also pushes
\* the expiry back.
VerifyUpdate_TouchesSecretAndExpiry(row, branch, tnow) ==
    CASE branch = "expire" ->
           [row EXCEPT !.status = "expired"]
      [] branch = "match" ->
           [row EXCEPT !.status = "printed",
                       !.printed_at = <<tnow>>,
                       !.otp_plain = "",
                       !.access_token = AccessToken(row.id, row.access_token.gen + 1)]
      [] branch = "mismatch" ->
           [row EXCEPT !.otp_attempts = row.otp_attempts + 1,
                       !.expires_at = row.expires_at + 1,
                       !.status = FailedStatus(row)]
      [] OTHER -> row

\* The success UPDATE without printed_at = now().
VerifyUpdate_NoPrintedAt(row, branch, tnow) ==
    CASE branch = "expire" ->
           [row EXCEPT !.status = "expired"]
      [] branch = "match" ->
           [row EXCEPT !.status = "printed",
                       !.access_token = AccessToken(row.id, row.access_token.gen + 1)]
      [] branch = "mismatch" ->
           [row EXCEPT !.otp_attempts = row.otp_attempts + 1,
                       !.status = FailedStatus(row)]
      [] OTHER -> row

\* The UPDATE ... WHERE id = job_id of the branch, applied to the stored row.
VerifyUpdate(row, branch, tnow) ==
    CASE branch = "expire" ->
           [row EXCEPT !.status = "expired"]
      [] branch = "match" ->
           [row EXCEPT !.status = "printed",
                       !.printed_at = <<tnow>>,
                       !.access_token = AccessToken(row.id, row.access_token.gen + 1)]
      [] branch = "mismatch" ->
           [row EXCEPT !.otp_attempts = row.otp_attempts + 1,
                       !.status = FailedStatus(row)]
      [] OTHER -> row

SuccessResult_Defaults(job_record) ==
    [ success |-> TRUE,
      file_path |-> job_record.file_path,
      copies |-> DEFAULT_PRINT_SETTINGS.copies,
      color_mode |-> DEFAULT_PRINT_SETTINGS.colorMode,
      paper_size |-> DEFAULT_PRINT_SETTINGS.paperSize,
      orientation |-> DEFAULT_PRINT_SETTINGS.orientation ]

\* jsonb_build_object('success', true, 'file_path', ...)
SuccessResult(job_record) ==
    [ success |-> TRUE,
      file_path |-> job_record.file_path,
      copies |-> job_record.copies,
      color_mode |-> job_record.color_mode,
      paper_size |-> job_record.paper_size,
      orientation |-> job_record.orientation ]

MismatchResult_RemainingZero(job_record) ==
    IF job_record.otp_attempts + 1 >= job_record.max_otp_attempts
    THEN [success |-> FALSE, error |-> "Too many attempts. Job locked.",
          attempts_remaining |-> 0]
    ELSE [success |-> FALSE, error |-> "Invalid OTP",
          attempts_remaining |->
              job_record.max_otp_attempts - job_record.otp_attempts - 1]

MismatchResult_BeforeIncrement(job_record) ==
    IF job_record.otp_attempts + 1 >= job_record.max_otp_attempts
    THEN [success |-> FALSE, error |-> "Too many attempts. Job locked."]
    ELSE [success |-> FALSE, error |-> "Invalid OTP",
          attempts_remaining |->
              job_record.max_otp_attempts - job_record.otp_attempts]

\* The result of the failed-attempt branch, computed from the selected record.
MismatchResult(job_record) ==
    IF job_record.otp_attempts + 1 >= job_record.max_otp_attempts
    THEN [success |-> FALSE, error |-> "Too many attempts. Job locked."]
    ELSE [success |-> FALSE, error |-> "Invalid OTP",
          attempts_remaining |->
              job_record.max_otp_attempts - job_record.otp_attempts - 1]

NotFoundResult == [success |-> FALSE, error |-> "Job not found"]
AlreadyPrintedResult == [success |-> FALSE, error |-> "Already printed"]
LockedResult == [success |-> FALSE, error |-> "Job locked due to failed attempts"]
ExpiredResult == [success |-> FALSE, error |-> "Job has expired"]

\* The JSONB verify_otp returns on each branch.
VerifyResult(job_record, branch) ==
    CASE branch = "already_printed" -> AlreadyPrintedResult
      [] branch = "already_locked" -> LockedResult
      [] branch = "already_expired" -> ExpiredResult
      [] branch = "expire" -> ExpiredResult
      [] branch = "match" -> SuccessResult(job_record)
      [] branch = "mismatch" -> MismatchResult(job_record)

RowLockFree_NoLock(job_id) == TRUE

RowLockFree_TableLock(job_id) == locked = EmptyBag

\* A row lock that outlives the transaction that took it.
RowLockFree_NotReleased(job_id) ==
    /\ \A h \in BagToSet(locked) : h.job_id # job_id
    /\ CallsOn(done, job_id) = 0

\* FOR UPDATE: the row can be selected only while no other transaction holds
\* its row lock.
RowLockFree(job_id) == \A h \in BagToSet(locked) : h.job_id # job_id

Max(a, b) == IF a >= b THEN a ELSE b

\* A call that has returned: what it was given and what it answered.
Returned(call, late, result) ==
    [job_id |-> call.job_id, provided_otp |-> call.provided_otp,
     client |-> call.client, late |-> late, result |-> result]

\* A client invokes rpc('verify_otp', {job_id, provided_otp}): the transaction starts.
\* limit bounds the number of calls the clients make in one behaviour.
VerifyBegin(job_id, provided_otp, limit) ==
    /\ job_id \in DOMAIN jobs \cup {UnknownId}
    /\ job_id = UnknownId =>
         CallsOn(waiting, UnknownId) + CallsOn(done, UnknownId) < MaxUnknownCalls
    /\ started < limit
    /\ started' = started + 1
    /\ waiting' = Put(waiting, [job_id |-> job_id, provided_otp |-> provided_otp,
                                client |-> NULL, txnow |-> now])
    /\ UNCHANGED <<jobs, locked, done, contended, now, files, reply, page, dashboard>>

\* SELECT * INTO job_record ... FOR UPDATE, and the NOT FOUND return.
VerifySelect(w) ==
    /\ w \in BagToSet(waiting)
    /\ waiting' = Take(waiting, w)
    /\ IF w.job_id \notin DOMAIN jobs
       THEN /\ done' = Put(done, Returned(w, FALSE, NotFoundResult))
            /\ UNCHANGED <<jobs, locked, started, contended, now, files, reply, page, dashboard>>
       ELSE /\ RowLockFree(w.job_id)
            /\ locked' = Put(locked, [job_id |-> w.job_id,
                                      provided_otp |-> w.provided_otp,
                                      client |-> w.client,
                                      txnow |-> w.txnow,
                                      job_record |-> jobs[w.job_id]])
            /\ contended' = [contended EXCEPT ![w.job_id] =
                               Max(@, CallsOn(waiting', w.job_id))]
            /\ UNCHANGED <<jobs, done, started, now, files, reply, page, dashboard>>

\* The status checks, the UPDATE, the RETURN and the commit that releases the lock.
VerifyFinish(h) ==
    /\ h \in BagToSet(locked)
    /\ LET branch == VerifyBranch(h.job_record, h.provided_otp, h.txnow) IN
       /\ jobs' = [jobs EXCEPT ![h.job_id] = VerifyUpdate(jobs[h.job_id], branch, h.txnow)]
       /\ done' = Put(done, Returned(h, h.job_record.expires_at < h.txnow,
                                    VerifyResult(h.job_record, branch)))
    /\ locked' = Take(locked, h)
    /\ UNCHANGED <<waiting, started, contended, now, files, reply, page, dashboard>>

(* ----------------------------- read paths ----------------------------- *)

\* Before any read has been answered.
NoReply == [op |-> "none"]

\* select('<columns>') on a row.
Project(row, columns) == [c \in columns |-> row[c]]

AllColumns ==
    {"id", "file_name", "file_path", "file_type", "copies", "color_mode",
     "paper_size", "orientation", "otp_hash", "otp_plain", "access_token",
     "status", "otp_attempts", "max_otp_attempts", "created_at", "expires_at",
     "printed_at", "session_id"}

\* The column list of the print page's query.
FetchJobColumns ==
    {"id", "file_name", "file_type", "copies", "color_mode", "paper_size",
     "orientation", "status", "expires_at", "otp_attempts", "max_otp_attempts"}

\* The column list of the gateway's query.
PrintStreamColumns == {"status", "file_path"}

\* .single(): the row when exactly one matches, an error otherwise.
Single(ids, columns) ==
    IF Cardinality(ids) = 1
    THEN [error |-> FALSE, data |-> Project(jobs[CHOOSE j \in ids : TRUE], columns)]
    ELSE [error |-> TRUE, data |-> NULL]

\* .order('created_at', { ascending: false })
NewestFirst(rows) ==
    CHOOSE s \in [1..Cardinality(rows) -> rows] :
       /\ \A r \in rows : \E i \in DOMAIN s : s[i] = r
       /\ \A i, k \in DOMAIN s : i < k => s[i].created_at >= s[k].created_at

FetchJobQuery_PendingOnly(token) ==
    Single({j \in DOMAIN jobs : jobs[j].access_token = token /\ jobs[j].status = "pending"},
           FetchJobColumns)

\* PrintPage.fetchJob: the job whose access_token is the token of the link.
FetchJobQuery(token) ==
    Single({j \in DOMAIN jobs : jobs[j].access_token = token}, FetchJobColumns)

\* What fetchJob leaves on the page: setError(...) or setJob(data). tnow is
\* new Date() on the page.
FetchJobPage(result, tnow) ==
    IF result.error
    THEN [error |-> "Print job not found or link has expired"]
    ELSE IF result.data.expires_at < tnow /\ result.data.status = "pending"
    THEN [error |-> "This print job has expired"]
    ELSE [job |-> result.data]

FetchJob(token) ==
    /\ reply' = [op |-> "fetchJob", token |-> token, result |-> FetchJobQuery(token),
                 page |-> FetchJobPage(FetchJobQuery(token), now)]
    /\ UNCHANGED <<jobs, waiting, locked, done, started, contended, now, files, page, dashboard>>

\* usePrintJobs.fetchJobs: select('*') of the session's jobs.
FetchJobsQuery(sessionId) ==
    NewestFirst({Project(jobs[j], AllColumns) :
                    j \in {i \in DOMAIN jobs : jobs[i].session_id = sessionId}})

FetchJobs(sessionId) ==
    /\ reply' = [op |-> "fetchJobs", result |-> FetchJobsQuery(sessionId)]
    /\ UNCHANGED <<jobs, waiting, locked, done, started, contended, now, files, page, dashboard>>

\* The extension of an object path.
Ext(filePath) == filePath[3]

isPDF(filePath) == Ext(filePath) = "pdf"
isImage(filePath) == Ext(filePath) \in {"jpg", "jpeg", "png"}

\* Job: ${jobId.slice(0, 8)} | Printed: ${timestamp} | ONE-TIME PRINT
\* (the ids of JobSeq are shorter than eight characters: the slice keeps them whole)
Watermark(jobId, timestamp) == [job |-> jobId, printed |-> timestamp]

\* contentHtml: the file embedded as a data URI, with the watermark.
ContentHtml(filePath, fileData, watermarkText) ==
    IF isImage(filePath)
    THEN [tag |-> "img",
          mime |-> IF Ext(filePath) = "png" THEN "image/png" ELSE "image/jpeg",
          data |-> fileData, watermark |-> watermarkText]
    ELSE IF isPDF(filePath)
    THEN [tag |-> "iframe", mime |-> "application/pdf",
          data |-> fileData, watermark |-> watermarkText]
    ELSE [tag |-> "none"]

PageBreak == [tag |-> "page-break"]

\* A page break after every copy, the last included.
CopiesHtml_TrailingBreak(contentHtml, copies) ==
    [k \in 1..(2 * copies) |-> IF k % 2 = 1 THEN contentHtml ELSE PageBreak]

\* copiesHtml: the content once per copy, a page break after each but the last.
CopiesHtml(contentHtml, copies) ==
    [k \in 1..(2 * copies - 1) |-> IF k % 2 = 1 THEN contentHtml ELSE PageBreak]

paperSizes ==
    [A4 |-> [width |-> "210mm", height |-> "297mm"],
     A3 |-> [width |-> "297mm", height |-> "420mm"],
     Letter |-> [width |-> "8.5in", height |-> "11in"],
     Legal |-> [width |-> "8.5in", height |-> "14in"]]

\* Names every object literal answers through Object.prototype: paperSizes[name]
\* is then a function or an object, which is truthy and has no width or height.
ObjectPrototypeKeys == {"constructor", "toString", "__proto__"}

\* paperSizes[paperSize] || paperSizes['A4']
PaperDimensions(paperSize) ==
    IF paperSize \in DOMAIN paperSizes THEN paperSizes[paperSize]
    ELSE IF paperSize \in ObjectPrototypeKeys
    THEN [width |-> "undefined", height |-> "undefined"]
    ELSE paperSizes["A4"]

\* The @page size: width and height, swapped for landscape.
PageSize(paperSize, orientation) ==
    IF orientation = "landscape"
    THEN <<PaperDimensions(paperSize).height, PaperDimensions(paperSize).width>>
    ELSE <<PaperDimensions(paperSize).width, PaperDimensions(paperSize).height>>

printHtml(req, fileData, timestamp) ==
    [size |-> PageSize(req.paperSize, req.orientation),
     grayscale |-> (req.colorMode = "bw"),
     body |-> CopiesHtml(ContentHtml(req.filePath, fileData,
                                     Watermark(req.jobId, timestamp)),
                         req.copies)]

Response(status, body) == [status |-> status, body |-> body]

\* The object path the print-stream function asks the print-files bucket for
\* while it serves the request: none when it answers before the download.
PrintStreamDownload(req) ==
    LET job == Single({j \in DOMAIN jobs : j = req.jobId}, PrintStreamColumns) IN
    IF req.filePath = NULL \/ req.jobId = "" THEN NULL
    ELSE IF job.error THEN NULL
    ELSE IF job.data.status # "printed" THEN NULL
    ELSE <<req.filePath>>

PrintStreamResponse_LookupFirst(req, storageUp) ==
    LET job == Single({j \in DOMAIN jobs : j = req.jobId}, PrintStreamColumns) IN
    IF job.error
    THEN Response(404, [error |-> "Job not found"])
    ELSE IF job.data.status # "printed"
    THEN Response(403, [error |-> "Invalid job status"])
    ELSE IF req.filePath = NULL \/ req.jobId = ""
    THEN Response(400, [error |-> "Missing required parameters"])
    ELSE IF ~storageUp \/ req.filePath \notin DOMAIN files
    THEN Response(500, [error |-> "Failed to retrieve file"])
    ELSE Response(200, [html |-> printHtml(req, files[req.filePath], now)])

PrintStreamResponse_NoStatusCheck(req, storageUp) ==
    LET job == Single({j \in DOMAIN jobs : j = req.jobId}, PrintStreamColumns) IN
    IF req.filePath = NULL \/ req.jobId = ""
    THEN Response(400, [error |-> "Missing required parameters"])
    ELSE IF job.error
    THEN Response(404, [error |-> "Job not found"])
    ELSE IF ~storageUp \/ req.filePath \notin DOMAIN files
    THEN Response(500, [error |-> "Failed to retrieve file"])
    ELSE Response(200, [html |-> printHtml(req, files[req.filePath], now)])

\* The print-stream function: the response to one POST. storageUp is whether
\* the object store answers the download.
PrintStreamResponse(req, storageUp) ==
    LET job == Single({j \in DOMAIN jobs : j = req.jobId}, PrintStreamColumns) IN
    IF req.filePath = NULL \/ req.jobId = ""
    THEN Response(400, [error |-> "Missing required parameters"])
    ELSE IF job.error
    THEN Response(404, [error |-> "Job not found"])
    ELSE IF job.data.status # "printed"
    THEN Response(403, [error |-> "Invalid job status"])
    ELSE IF ~storageUp \/ req.filePath \notin DOMAIN files
    THEN Response(500, [error |-> "Failed to retrieve file"])
    ELSE Response(200, [html |-> printHtml(req, files[req.filePath], now)])

\* An object path under which nothing was uploaded.
UnlistedPath == FilePath("s1", UnknownId, "png")

\* The request bodies the clients post: a job id or none, an object path or
\* none, and the print settings of some upload.
Requests ==
    { [jobId |-> j, filePath |-> p, copies |-> up.settings.copies,
       colorMode |-> up.settings.colorMode, paperSize |-> up.settings.paperSize,
       orientation |-> up.settings.orientation] :
         j \in DOMAIN jobs \cup {UnknownId, ""},
         p \in DOMAIN files \cup {NULL, UnlistedPath},
         up \in Uploads }

\* A request answered before the download, or asking for a path the bucket
\* does not have, gets the same answer whatever the object store would do,
\* and a request that gets no document gets the same answer whatever its
\* print settings: one of each is taken.
PrintStream(req, storageUp) ==
    /\ (PrintStreamDownload(req) = NULL \/ req.filePath \notin DOMAIN files) => storageUp
    /\ PrintStreamResponse(req, storageUp).status # 200
         => req.copies = DEFAULT_PRINT_SETTINGS.copies
    /\ reply' = [op |-> "print-stream",
                 jobId |-> req.jobId, filePath |-> req.filePath,
                 copies |-> req.copies,
                 paperSize |-> req.paperSize, orientation |-> req.orientation,
                 download |-> PrintStreamDownload(req),
                 result |-> PrintStreamResponse(req, storageUp)]
    /\ UNCHANGED <<jobs, waiting, locked, done, started, contended, now, files, page, dashboard>>

(* ----------------------------- print page ----------------------------- *)

\* The useState initial values of PrintPage, before a link is opened. calls
\* numbers the page's verify_otp calls; toasts and sent are the toasts raised
\* and the requests issued by the last run of handleVerifyAndPrint after its
\* verify_otp call.
ClosedPage ==
    [token |-> NULL, job |-> NULL, error |-> NULL, verifying |-> FALSE,
     printSuccess |-> FALSE, printHtml |-> NULL, calls |-> 0,
     toasts |-> <<>>, sent |-> <<>>]

\* fetchJob on the page p: setError(...) or setJob(data).
PageFetchJob(p) ==
    LET outcome == FetchJobPage(FetchJobQuery(p.token[1]), now) IN
    IF "error" \in DOMAIN outcome
    THEN [p EXCEPT !.error = <<outcome.error>>]
    ELSE [p EXCEPT !.job = <<outcome.job>>]

\* The page is mounted on /print/:token and its first fetchJob is answered.
PageOpen(token) ==
    /\ page = ClosedPage
    /\ page' = PageFetchJob([ClosedPage EXCEPT !.token = <<token>>])
    /\ UNCHANGED <<jobs, waiting, locked, done, started, contended, now, files,
                   reply, dashboard>>

\* The OTP form is rendered: no print frame, no error, canPrint && !printSuccess.
OtpFormShown(p) ==
    /\ p.token # NULL
    /\ p.printHtml = NULL
    /\ p.error = NULL
    /\ p.job # NULL
    /\ p.job[1].status = "pending"
    /\ ~p.printSuccess

\* {job.max_otp_attempts - job.otp_attempts} attempts remaining
AttemptsLabel(p) == p.job[1].max_otp_attempts - p.job[1].otp_attempts

Toast(type, message) == [type |-> type, message |-> message]

\* `${result.attempts_remaining} attempts remaining`
AttemptsMessage(attempts_remaining) == <<attempts_remaining, " attempts remaining">>

\* result.error?.includes('locked') || result.error?.includes('Too many')
MentionsLock(error) ==
    error \in {"Job locked due to failed attempts", "Too many attempts. Job locked."}

\* What the page writes around the stream: the mimic UI sized by paper_size
\* === 'a4' and labelled with the color mode.
SecureHtml(html, jobInfo) ==
    [stream |-> html,
     mimic |-> [width |-> IF jobInfo.paper_size = "a4" THEN "210mm" ELSE "8.5in",
                height |-> IF jobInfo.paper_size = "a4" THEN "297mm" ELSE "11in",
                color_mode |-> jobInfo.color_mode]]

\* The document the page builds itself from the downloaded blob.
FallbackHtml(fileData, jobInfo) ==
    [doc |-> fileData, size |-> <<jobInfo.paper_size, jobInfo.orientation>>]

\* The body the page posts to print-stream.
StreamRequest(filePath, jobInfo) ==
    [jobId |-> jobInfo.id, filePath |-> filePath, copies |-> jobInfo.copies,
     colorMode |-> jobInfo.color_mode, paperSize |-> jobInfo.paper_size,
     orientation |-> jobInfo.orientation]

\* generateSecurePrintHtml: the requests it issues and the document it
\* resolves to (NULL when it throws). streamUp is whether the edge function
\* can be reached, storageUp whether the object store answers.
generateSecurePrintHtml(filePath, jobInfo, streamUp, storageUp) ==
    LET body == StreamRequest(filePath, jobInfo)
        response == PrintStreamResponse(body, storageUp)
        invoke == [to |-> "print-stream", body |-> body]
        download == [to |-> "storage", path |-> filePath]
    IN  IF streamUp /\ response.status = 200
        THEN [sent |-> <<invoke>>,
              html |-> <<SecureHtml(response.body.html, jobInfo)>>]
        ELSE IF storageUp /\ filePath \in DOMAIN files
        THEN [sent |-> <<invoke, download>>,
              html |-> <<FallbackHtml(files[filePath], jobInfo)>>]
        ELSE [sent |-> <<invoke, download>>, html |-> NULL]

\* handleVerifyAndPrint without the return that ends the failure branch and
\* without the check that a file path came back.
HandleVerifyResult_NoReturnOnFailure(p, rpcOk, result, streamUp, storageUp) ==
    LET q == [p EXCEPT !.verifying = FALSE]
        failed == Toast("error", "Verification failed. Please try again.")
        file_path == IF "file_path" \in DOMAIN result THEN result.file_path ELSE NULL
        stream == generateSecurePrintHtml(file_path, q.job[1], streamUp, storageUp)
    IN  IF ~rpcOk
        THEN [q EXCEPT !.toasts = <<failed>>]
        ELSE IF stream.html = NULL
        THEN [q EXCEPT !.toasts = <<failed>>, !.sent = stream.sent]
        ELSE [q EXCEPT !.toasts = <<>>, !.sent = stream.sent, !.printHtml = stream.html]

\* handleVerifyAndPrint after the rpc answered: rpcOk is whether the answer
\* reached the page (no verifyError).
HandleVerifyResult(p, rpcOk, result, streamUp, storageUp) ==
    LET q == [p EXCEPT !.verifying = FALSE]
        failed == Toast("error", "Verification failed. Please try again.")
    IN  IF ~rpcOk
        THEN [q EXCEPT !.toasts = <<failed>>]
        ELSE IF ~result.success
        THEN IF MentionsLock(result.error)
             THEN [q EXCEPT !.toasts = <<Toast("error", result.error)>>,
                            !.job = <<[@[1] EXCEPT !.status = "locked"]>>]
             ELSE IF "attempts_remaining" \in DOMAIN result
             THEN [q EXCEPT
                     !.toasts = <<Toast("error", result.error),
                                  Toast("warning",
                                        AttemptsMessage(result.attempts_remaining))>>,
                     !.job = <<[@[1] EXCEPT !.otp_attempts = @ + 1]>>]
             ELSE PageFetchJob([q EXCEPT !.toasts = <<Toast("error", result.error)>>])
        ELSE LET verified == Toast("success", "OTP verified! Preparing secure document...")
                 stream == generateSecurePrintHtml(result.file_path, q.job[1],
                                                   streamUp, storageUp)
             IN  IF "file_path" \notin DOMAIN result
                 THEN [q EXCEPT !.toasts = <<verified, failed>>]
                 ELSE IF stream.html = NULL
                 THEN [q EXCEPT !.toasts = <<verified, failed>>, !.sent = stream.sent]
                 ELSE [q EXCEPT !.toasts = <<verified>>, !.sent = stream.sent,
                                !.printHtml = stream.html]

\* The Verify & Print button: handleVerifyAndPrint up to the rpc. otp is what
\* the OTP field holds.
PageVerifyBegin(otp, limit) ==
    /\ OtpFormShown(page)
    /\ ~page.verifying
    /\ IF Len(otp) # 6
       THEN /\ page' = [page EXCEPT
                          !.toasts = <<Toast("error", "Please enter a valid 6-digit OTP")>>,
                          !.sent = <<>>]
            /\ UNCHANGED <<waiting, started>>
       ELSE /\ started < limit
            /\ started' = started + 1
            /\ waiting' = Put(waiting, [job_id |-> page.job[1].id, provided_otp |-> otp,
                                        client |-> <<page.calls + 1>>, txnow |-> now])
            /\ page' = [page EXCEPT !.verifying = TRUE, !.calls = @ + 1,
                                    !.toasts = <<>>, !.sent = <<>>]
    /\ UNCHANGED <<jobs, locked, done, contended, now, files, reply, dashboard>>

\* The page's own call among the calls that returned.
PageCall == {d \in BagToSet(done) : d.client = <<page.calls>>}

\* The rpc promise settles and the rest of handleVerifyAndPrint runs. The
\* edge function and the object store are consulted only after a success: one
\* choice of them is taken otherwise.
PageVerifyEnd(rpcOk, streamUp, storageUp) ==
    /\ page.verifying
    /\ \E d \in PageCall :
          /\ ~(rpcOk /\ d.result.success) => streamUp /\ storageUp
          /\ page' = HandleVerifyResult(page, rpcOk, d.result, streamUp, storageUp)
    /\ UNCHANGED <<jobs, waiting, locked, done, started, contended, now, files,
                   reply, dashboard>>

\* handleMessage: the window receives the message 'closePrint'.
PageClosePrint ==
    /\ page.token # NULL
    /\ page' = PageFetchJob([page EXCEPT !.printHtml = NULL, !.printSuccess = TRUE])
    /\ UNCHANGED <<jobs, waiting, locked, done, started, contended, now, files,
                   reply, dashboard>>

(* ------------------------------ dashboard ----------------------------- *)

\* The ids supabase.auth gives signed-in users.
Users == {"u1"}

\* usePrintJobs and PreviewModal before the dashboard is opened: the session
\* id in use, the local list of jobs and the preview that was loaded.
ClosedDashboard == [sessionId |-> NULL, jobs |-> <<>>, preview |-> NULL]

\* The dashboard is mounted: getSessionId(), the list still empty.
DashboardOpen(sessionId) ==
    /\ dashboard = ClosedDashboard
    /\ dashboard' = [ClosedDashboard EXCEPT !.sessionId = <<sessionId>>]
    /\ UNCHANGED <<jobs, waiting, locked, done, started, contended, now, files,
                   reply, page>>

\* fetchJobs is answered: after the mount, after a change of the session id,
\* or on refreshJobs.
DashboardRefresh ==
    /\ dashboard.sessionId # NULL
    /\ dashboard' = [dashboard EXCEPT !.jobs = FetchJobsQuery(dashboard.sessionId[1])]
    /\ UNCHANGED <<jobs, waiting, locked, done, started, contended, now, files,
                   reply, page>>

\* The interval's map over the local list.
ExpireLocally(job) ==
    IF job.status = "pending" /\ job.expires_at < now
    THEN [job EXCEPT !.status = "expired"]
    ELSE job

\* setInterval(..., 60000): check for expired jobs every minute.
DashboardExpiryTick ==
    /\ dashboard.sessionId # NULL
    /\ dashboard' = [dashboard EXCEPT
                       !.jobs = [i \in DOMAIN @ |-> ExpireLocally(@[i])]]
    /\ UNCHANGED <<jobs, waiting, locked, done, started, contended, now, files,
                   reply, page>>

\* PreviewModal.loadPreview on the i-th card of the list: the object path it
\* downloads and the blob or the error it gets.
DashboardPreview(i, storageUp) ==
    /\ i \in DOMAIN dashboard.jobs
    /\ LET job == dashboard.jobs[i] IN
       dashboard' = [dashboard EXCEPT
                       !.preview = <<[job |-> job.id, path |-> job.file_path,
                                      blob |-> IF storageUp /\ job.file_path \in DOMAIN files
                                               THEN <<files[job.file_path]>>
                                               ELSE NULL]>>]
    /\ UNCHANGED <<jobs, waiting, locked, done, started, contended, now, files,
                   reply, page>>

\* clearJobs: the DELETE is filtered by row level security, which has no
\* policy FOR DELETE, so it removes no row; the local list is emptied.
ClearJobs ==
    /\ dashboard.sessionId # NULL
    /\ dashboard' = [dashboard EXCEPT !.jobs = <<>>]
    /\ UNCHANGED <<jobs, waiting, locked, done, started, contended, now, files,
                   reply, page>>

\* A merge that also puts the job back to its created state.
MergeSession_ResetsJob(row, currentLocalSession, userId) ==
    IF row.session_id = currentLocalSession
    THEN [row EXCEPT !.session_id = userId, !.status = "pending", !.otp_attempts = 0]
    ELSE row

\* update({ session_id: userId }).eq('session_id', currentLocalSession) on a row.
MergeSession(row, currentLocalSession, userId) ==
    IF row.session_id = currentLocalSession
    THEN [row EXCEPT !.session_id = userId]
    ELSE row

\* handleUserLogin: the anonymous session's jobs move to the user and the
\* session id becomes the user id.
HandleUserLogin(userId) ==
    /\ dashboard.sessionId # NULL
    /\ dashboard.sessionId[1] # userId
    /\ jobs' = [j \in DOMAIN jobs |-> MergeSession(jobs[j], dashboard.sessionId[1], userId)]
    /\ dashboard' = [dashboard EXCEPT !.sessionId = <<userId>>]
    /\ UNCHANGED <<waiting, locked, done, started, contended, now, files, reply, page>>


(* --------------------------- specification ---------------------------- *)

\* The call budget: smaller once a second job exists.
CallLimit == IF Cardinality(DOMAIN jobs) > 1 THEN MaxCallsShared ELSE MaxCalls

Init ==
    /\ jobs = << >>
    /\ waiting = EmptyBag
    /\ locked = EmptyBag
    /\ done = EmptyBag
    /\ started = 0
    /\ contended = [j \in JobIds |-> 0]
    /\ now = 0
    /\ files = << >>
    /\ reply = NoReply
    /\ page = ClosedPage
    /\ dashboard = ClosedDashboard

Next ==
    \/ \E up \in Uploads : CreateJob(up)
    \/ \E t \in 0..MaxTime : Tick(t)
    \/ \E job_id \in JobIds \cup {UnknownId}, otp \in Otps :
          VerifyBegin(job_id, otp, CallLimit)
    \/ \E w \in BagToSet(waiting) : VerifySelect(w)
    \/ \E h \in BagToSet(locked) : VerifyFinish(h)

Spec == Init /\ [][Next]_vars

\* N = ceiling + 2 callers, each with a secret that is not the job's, against
\* one job.
WrongSecretCalls == DefaultMaxOtpAttempts + 2

NextWrongSecret ==
    \/ \E up \in Uploads : DOMAIN jobs = {} /\ CreateJob(up)
    \/ \E t \in 0..MaxTime : Tick(t)
    \/ \E job_id \in JobIds, otp \in Otps :
          /\ job_id \in DOMAIN jobs
          /\ otp # jobs[job_id].otp_plain
          /\ VerifyBegin(job_id, otp, WrongSecretCalls)
    \/ \E w \in BagToSet(waiting) : VerifySelect(w)
    \/ \E h \in BagToSet(locked) : VerifyFinish(h)

SpecWrongSecret == Init /\ [][NextWrongSecret]_vars

\* The call budget beside the read paths: smaller once a second job exists.
ReadCallLimit ==
    IF Cardinality(DOMAIN jobs) > 1 THEN MaxCallsReadShared ELSE MaxCallsRead

\* The lookups of the print page and of the dashboard beside the verify calls.
NextRead ==
    \/ \E up \in Uploads : CreateJob(up)
    \/ \E t \in 0..MaxTime : Tick(t)
    \/ \E job_id \in JobIds \cup {UnknownId}, otp \in Otps :
          VerifyBegin(job_id, otp, ReadCallLimit)
    \/ \E w \in BagToSet(waiting) : VerifySelect(w)
    \/ \E h \in BagToSet(locked) : VerifyFinish(h)
    \/ \E j \in JobIds, n \in 0..1 : FetchJob(AccessToken(j, n))
    \/ \E sessionId \in Sessions : FetchJobs(sessionId)

SpecRead == Init /\ [][NextRead]_vars

\* The call budget beside the gateway: calls start while one job exists.
RenderCallLimit == IF Cardinality(DOMAIN jobs) > 1 THEN 0 ELSE MaxCallsRead

\* The gateway beside the verify calls on the jobs it can be asked about.
NextRender ==
    \/ \E up \in Uploads : CreateJob(up)
    \/ \E t \in 0..MaxTime : Tick(t)
    \/ \E job_id \in JobIds, otp \in Otps :
          VerifyBegin(job_id, otp, RenderCallLimit)
    \/ \E w \in BagToSet(waiting) : VerifySelect(w)
    \/ \E h \in BagToSet(locked) : VerifyFinish(h)
    \/ \E req \in Requests, storageUp \in BOOLEAN : PrintStream(req, storageUp)

SpecRender == Init /\ [][NextRender]_vars

(* ----------------------------- properties ----------------------------- *)

Done == BagToSet(done)

\* The call carries the secret generated for its job.
CorrectSecret(call) ==
    /\ call.job_id \in DOMAIN jobs
    /\ call.provided_otp = jobs[call.job_id].otp_plain

\* Calls on job j that have returned success.
Successes(j) == CountIn(done, {d \in Done : d.job_id = j /\ d.result.success})

\* Calls on job j whose result carries the file locator.
LocatorReturns(j) ==
    CountIn(done, {d \in Done : d.job_id = j /\ "file_path" \in DOMAIN d.result})

\* All calls ever made on job j have returned, and there are n of them.
AllReturned(j, n) ==
    /\ CallsOn(waiting, j) = 0
    /\ CallsOn(locked, j) = 0
    /\ CallsOn(done, j) = n

\* The calls that return in this step, and the calls that commit in it.
Added == {d \in BagToSet(done') : CopiesIn(d, done') > CopiesIn(d, done)}
Finishing == {h \in BagToSet(locked) : CopiesIn(h, locked') < CopiesIn(h, locked)}

PrintParams == {"file_path", "copies", "color_mode", "paper_size", "orientation"}

\* C1: over all interleavings of concurrent verify calls on one job, with any
\* mix of correct and wrong secrets, at most one call returns success.
C1_AtMostOneSuccess == \A j \in DOMAIN jobs : Successes(j) <= 1

\* Two calls with the correct secret were in flight on the job together; one
\* succeeded and the other was refused.
C1_Witness ==
    \E j \in DOMAIN jobs :
       /\ contended[j] >= 1
       /\ AllReturned(j, 2)
       /\ \A d \in Done : d.job_id = j => CorrectSecret(d)
       /\ Successes(j) = 1

\* The locator has been returned once for a printed job and never for another.
C2_LocatorOnce ==
    \A j \in DOMAIN jobs :
       LocatorReturns(j) = IF jobs[j].status = "printed" THEN 1 ELSE 0

\* A call returning after a success on its job is refused as already printed.
C2_LaterCallRefused ==
    \A d \in Added :
       (\E s \in Done : s.job_id = d.job_id /\ s.result.success)
          => d.result = AlreadyPrintedResult

\* C2: once a verify call on a job has returned success, every verify call on
\* that job that returns later, whatever its secret, returns AlreadyPrinted
\* without a file locator; the locator is returned exactly once per printed job
\* and never for any other job.
C2_SuccessExactlyOnce == []C2_LocatorOnce /\ [][C2_LaterCallRefused]_vars

\* A second call with the correct secret has been refused after the success.
C2_Witness ==
    \E d \in Done :
       /\ CorrectSecret(d)
       /\ d.result = AlreadyPrintedResult
       /\ Successes(d.job_id) = 1

\* C3: when ceiling + 2 verify calls with a wrong secret have all run against a
\* job and none of them found it expired, the attempt counter equals the
\* ceiling and the status is locked.
C3_WrongSecretsLockAtCeiling ==
    \A j \in DOMAIN jobs :
       ( /\ AllReturned(j, jobs[j].max_otp_attempts + 2)
         /\ \A d \in Done : d.job_id = j =>
               ~CorrectSecret(d) /\ d.result # ExpiredResult )
       => /\ jobs[j].otp_attempts = jobs[j].max_otp_attempts
          /\ jobs[j].status = "locked"

\* All ceiling + 2 calls were in flight together: ceiling + 1 of them waited
\* behind the first lock holder.
C3_Witness ==
    \E j \in DOMAIN jobs :
       /\ contended[j] = jobs[j].max_otp_attempts + 1
       /\ AllReturned(j, jobs[j].max_otp_attempts + 2)
       /\ \A d \in Done : ~CorrectSecret(d) /\ d.result # ExpiredResult
       /\ jobs[j].otp_attempts = jobs[j].max_otp_attempts
       /\ jobs[j].status = "locked"

\* C4: in every reachable state every job's attempt counter is at most its
\* attempt ceiling.
C4_AttemptsAtMostCeiling ==
    \A j \in DOMAIN jobs : jobs[j].otp_attempts <= jobs[j].max_otp_attempts

\* The counter is at the ceiling and a further call has been turned away.
C4_Witness ==
    \E d \in Done :
       /\ d.result = LockedResult
       /\ jobs[d.job_id].otp_attempts = jobs[d.job_id].max_otp_attempts

\* C5: no reachable state has a job that is pending with its attempt counter
\* at or above its ceiling.
C5_NoPendingAtCeiling ==
    \A j \in DOMAIN jobs :
       ~(jobs[j].status = "pending" /\ jobs[j].otp_attempts >= jobs[j].max_otp_attempts)

\* The failed attempt that reached the ceiling has committed.
C5_Witness ==
    \E j \in DOMAIN jobs :
       /\ jobs[j].otp_attempts = jobs[j].max_otp_attempts
       /\ jobs[j].status = "locked"
       /\ AllReturned(j, jobs[j].max_otp_attempts)

\* A call committing with its now() past the expiry of the row.
C6_ExpiredCall ==
    \A h \in Finishing :
       (jobs[h.job_id].expires_at < h.txnow)
          => /\ jobs'[h.job_id].status = "printed" => jobs[h.job_id].status = "printed"
             /\ jobs[h.job_id].status = "pending"
                  => /\ jobs'[h.job_id].status = "expired"
                     /\ \A d \in Added : d.result = ExpiredResult

\* A printed job was printed no later than its expiry.
C6_PrintedBeforeExpiry ==
    \A j \in DOMAIN jobs :
       jobs[j].status = "printed" => ~(jobs[j].expires_at < jobs[j].printed_at[1])

\* C6: a verify call whose now() is past the expiry of the pending job it
\* selected returns Expired and sets status = expired whatever its secret, and
\* no job is printed by a call whose now() is past the job's expiry.
C6_ExpiryBeforeSecret == []C6_PrintedBeforeExpiry /\ [][C6_ExpiredCall]_vars

\* The only call on the job carried the correct secret after the expiry.
C6_Witness ==
    \E d \in Done :
       /\ CorrectSecret(d)
       /\ d.late
       /\ d.result = ExpiredResult
       /\ AllReturned(d.job_id, 1)
       /\ jobs[d.job_id].status = "expired"

\* One step of the table, job by job.
C7_Step ==
    \A j \in DOMAIN jobs :
       /\ jobs'[j].status # jobs[j].status
            => /\ jobs[j].status = "pending"
               /\ jobs'[j].status \in {"printed", "expired", "locked"}
       /\ jobs'[j].otp_attempts >= jobs[j].otp_attempts

\* C7: every change of a job's status goes from pending to printed, expired or
\* locked, and the attempt counter never decreases.
C7_MonotoneStatus == [][C7_Step]_vars

\* A job took failed attempts, was printed, and was then called again.
C7_Witness ==
    \E j \in DOMAIN jobs :
       /\ jobs[j].status = "printed"
       /\ jobs[j].otp_attempts > 0
       /\ \E d \in Done : d.job_id = j /\ d.result = AlreadyPrintedResult

\* One step of the table, for the jobs that are no longer pending.
C8_Step ==
    \A j \in DOMAIN jobs :
       jobs[j].status # "pending"
          => /\ jobs'[j].status = jobs[j].status
             /\ jobs'[j].otp_attempts = jobs[j].otp_attempts
             /\ jobs'[j].access_token = jobs[j].access_token

\* C8: once a job is printed, expired or locked, no step changes its status,
\* its attempt counter or its capability token.
C8_TerminalFrozen == [][C8_Step]_vars

\* A call made after the expiry time, with the correct secret, has returned
\* from a locked job.
C8_Witness ==
    \E d \in Done :
       /\ d.late
       /\ CorrectSecret(d)
       /\ d.result = LockedResult
       /\ jobs[d.job_id].status = "locked"

\* The rows a reply of the lookup by token or of the listing carries.
ReplyRows ==
    IF reply.op = "fetchJob" /\ ~reply.result.error THEN {reply.result.data}
    ELSE IF reply.op = "fetchJobs" THEN {reply.result[i] : i \in DOMAIN reply.result}
    ELSE {}

\* C9: no response of a read path (the lookup by capability token, the listing
\* by owner key, the gateway's answer after its reload of the job) carries a
\* job's file_path.
C9_LocatorNeverRead ==
    /\ \A row \in ReplyRows : "file_path" \notin DOMAIN row
    /\ reply.op = "print-stream" => "file_path" \notin DOMAIN reply.result.body

\* C10: a verify result carries the file path and the print parameters exactly
\* when success is true, and then they are the values stored on the job.
C10_ParamsIffSuccess ==
    \A d \in Done :
       IF d.result.success
       THEN /\ PrintParams \subseteq DOMAIN d.result
            /\ d.result.file_path = jobs[d.job_id].file_path
            /\ d.result.copies = jobs[d.job_id].copies
            /\ d.result.color_mode = jobs[d.job_id].color_mode
            /\ d.result.paper_size = jobs[d.job_id].paper_size
            /\ d.result.orientation = jobs[d.job_id].orientation
       ELSE PrintParams \cap DOMAIN d.result = {}

\* A success on a job uploaded with settings other than the defaults, and a
\* failure on the same job.
C10_Witness ==
    \E d \in Done :
       /\ d.result.success
       /\ jobs[d.job_id].copies # DEFAULT_PRINT_SETTINGS.copies
       /\ \E e \in Done : e.job_id = d.job_id /\ ~e.result.success

\* The token a job was created with.
OriginalToken(j) == AccessToken(j, 0)

\* The lookup by token answered in this step.
Looked == reply' # reply /\ reply'.op = "fetchJob"

\* A printed job no longer has its original token, and that token finds no job.
C11_PrintedTokenFresh ==
    \A j \in DOMAIN jobs :
       jobs[j].status = "printed"
          => /\ jobs[j].access_token # OriginalToken(j)
             /\ FetchJobQuery(OriginalToken(j)).error

\* The token changes in exactly the steps that make the job printed, and a
\* lookup by the original token of a printed job is answered with no job.
C11_RotationStep ==
    /\ \A j \in DOMAIN jobs :
          (jobs'[j].access_token # jobs[j].access_token)
             <=> (jobs[j].status # "printed" /\ jobs'[j].status = "printed")
    /\ \A j \in DOMAIN jobs :
          (Looked /\ jobs[j].status = "printed" /\ reply'.token = OriginalToken(j))
             => reply'.result.error

\* C11: the successful verify replaces the job's capability token in the same
\* commit that sets status = printed; in every state with status = printed the
\* token differs from the one issued at creation, and a lookup by the original
\* token finds no job.
C11_TokenRotatedOnSuccess == []C11_PrintedTokenFresh /\ [][C11_RotationStep]_vars

\* The original link was followed after the job was printed and found nothing.
C11_Witness ==
    \E j \in DOMAIN jobs :
       /\ jobs[j].status = "printed"
       /\ reply.op = "fetchJob"
       /\ reply.token = OriginalToken(j)
       /\ reply.result.error

\* A lookup by a job's original token is answered with the job, in its stored
\* status, unless the job is printed.
C12_LookupStep ==
    \A j \in DOMAIN jobs :
       (Looked /\ reply'.token = OriginalToken(j))
          => IF jobs[j].status = "printed"
             THEN reply'.result.error
             ELSE /\ ~reply'.result.error
                  /\ reply'.result.data.id = j
                  /\ reply'.result.data.status = jobs[j].status
                  /\ IF jobs[j].status = "pending" /\ jobs[j].expires_at < now
                     THEN reply'.page = [error |-> "This print job has expired"]
                     ELSE reply'.page = [job |-> reply'.result.data]

\* The original token reaches the job in every state where it is not printed.
C12_ReachableUntilPrinted ==
    \A j \in DOMAIN jobs :
       FetchJobQuery(OriginalToken(j)).error <=> jobs[j].status = "printed"

\* C12 (amended): the capability token issued at creation reaches the job
\* while its status is pending, locked or expired, the lookup returning the
\* job with that status; it stops reaching the job only once the job is
\* printed. The page shows the job it was returned, except a pending job past
\* its expiry, which it reports as expired.
C12_TokenValidUntilPrinted == []C12_ReachableUntilPrinted /\ [][C12_LookupStep]_vars

\* The original link was followed on a locked job and showed it as locked.
C12_Witness ==
    \E j \in DOMAIN jobs :
       /\ jobs[j].status = "locked"
       /\ reply.op = "fetchJob"
       /\ reply.token = OriginalToken(j)
       /\ ~reply.result.error
       /\ reply.result.data.status = "locked"
       /\ reply.page = [job |-> reply.result.data]

\* A lookup by a job's original token that yields the job yields it pending.
C12_PendingOnlyStep ==
    \A j \in DOMAIN jobs :
       (Looked /\ reply'.token = OriginalToken(j) /\ ~reply'.result.error)
          => reply'.result.data.status = "pending"

\* C12 (as claimed): a lookup by capability token yields the job only while
\* its status is pending, and nothing once it is printed, locked or expired.
C12_TokenValidOnlyWhilePending == [][C12_PendingOnlyStep]_vars

\* The gateway request answered in this step.
Rendered == reply' # reply /\ reply'.op = "print-stream"

\* A request that names a job which is not printed, and carries a file path.
C13_ForbiddenStep ==
    \A j \in DOMAIN jobs :
       (Rendered /\ reply'.jobId = j /\ reply'.filePath # NULL
          /\ jobs[j].status # "printed")
          => /\ reply'.result.status = 403
             /\ reply'.download = NULL
             /\ "html" \notin DOMAIN reply'.result.body

\* C13: for every job whose stored status is not printed, the gateway, having
\* reloaded the job by id, answers 403 to a request that names it, whatever
\* file path and parameters the request carries, without asking the object
\* store for anything and without returning file bytes.
C13_NotPrintedForbidden == [][C13_ForbiddenStep]_vars

\* A request with the job's own file path was refused while the job was locked.
C13_Witness ==
    \E j \in DOMAIN jobs :
       /\ jobs[j].status = "locked"
       /\ reply.op = "print-stream"
       /\ reply.jobId = j
       /\ reply.filePath = jobs[j].file_path
       /\ reply.result.status = 403
       /\ reply.download = NULL

\* The status the first failing check gives a request: 200 stands for no
\* failing check before the download.
C14_Expected(jobId, filePath) ==
    IF filePath = NULL \/ jobId = "" THEN {400}
    ELSE IF jobId \notin DOMAIN jobs THEN {404}
    ELSE IF jobs[jobId].status # "printed" THEN {403}
    ELSE IF filePath \notin DOMAIN files THEN {500}
    ELSE {500, 200}

C14_OrderStep ==
    Rendered
       => /\ reply'.result.status \in C14_Expected(reply'.jobId, reply'.filePath)
          /\ "html" \in DOMAIN reply'.result.body <=> reply'.result.status = 200
          /\ reply'.result.status # 200 => DOMAIN reply'.result.body = {"error"}
          /\ reply'.download # NULL <=> reply'.result.status \in {500, 200}

\* C14: the gateway's answer is decided by the first failing check in the
\* order missing job id or file path (400), unknown job (404), status other
\* than printed (403), failed object-store fetch (500); the html document is
\* present only in the 200 response and an error response carries only an
\* error text.
C14_FirstFailingCheck == [][C14_OrderStep]_vars

\* The three earlier checks passed and the object store had nothing under the
\* path of the request.
C14_Witness ==
    /\ reply.op = "print-stream"
    /\ reply.jobId \in DOMAIN jobs
    /\ jobs[reply.jobId].status = "printed"
    /\ reply.filePath = UnlistedPath
    /\ reply.download = <<UnlistedPath>>
    /\ reply.result.status = 500

\* The call that commits in this step carries a secret that is not the job's.
WrongSecret(h) == h.provided_otp # jobs[h.job_id].otp_plain

\* A wrong secret on a pending, unexpired job, below the ceiling after it: the
\* call returns InvalidSecret with what the stored counter leaves.
C15_RemainingStep ==
    /\ \A h \in Finishing :
          ( /\ WrongSecret(h)
            /\ jobs[h.job_id].status = "pending"
            /\ ~(jobs[h.job_id].expires_at < h.txnow)
            /\ jobs[h.job_id].otp_attempts + 1 < jobs[h.job_id].max_otp_attempts )
          => \A d \in Added :
                /\ d.result.error = "Invalid OTP"
                /\ d.result.attempts_remaining =
                      jobs'[h.job_id].max_otp_attempts - jobs'[h.job_id].otp_attempts
    /\ \A d \in Added :
          (~d.result.success /\ d.result.error = "Invalid OTP")
             => d.result.attempts_remaining =
                   jobs'[d.job_id].max_otp_attempts - jobs'[d.job_id].otp_attempts

\* C15: a verify call with a wrong secret on a pending, unexpired job that does
\* not reach the ceiling returns InvalidSecret with attemptsRemaining equal to
\* the ceiling minus the attempt counter as stored by that call's commit, in
\* every interleaving of concurrent callers.
C15_RemainingAfterCommit == [][C15_RemainingStep]_vars

\* Two wrong-secret calls were in flight on the job together; one was told 2
\* remain and the other 1.
C15_Witness ==
    \E j \in DOMAIN jobs :
       /\ contended[j] >= 1
       /\ AllReturned(j, 2)
       /\ \E d, e \in Done :
             /\ d.job_id = j /\ e.job_id = j
             /\ d.result = [success |-> FALSE, error |-> "Invalid OTP",
                            attempts_remaining |-> 2]
             /\ e.result = [success |-> FALSE, error |-> "Invalid OTP",
                            attempts_remaining |-> 1]
       /\ jobs[j].otp_attempts = 2

\* The result of the failed attempt that reaches the ceiling.
JustLockedResult == [success |-> FALSE, error |-> "Too many attempts. Job locked."]

\* The call that commits in this step makes the failed attempt that reaches
\* the ceiling.
ReachesCeiling(h) ==
    /\ WrongSecret(h)
    /\ jobs[h.job_id].status = "pending"
    /\ ~(jobs[h.job_id].expires_at < h.txnow)
    /\ jobs[h.job_id].otp_attempts + 1 >= jobs[h.job_id].max_otp_attempts

C16_JustLockedStep ==
    \A h \in Finishing :
       ReachesCeiling(h)
          => /\ \A d \in Added : d.result = JustLockedResult
             /\ jobs'[h.job_id].otp_attempts = jobs'[h.job_id].max_otp_attempts
             /\ jobs'[h.job_id].status = "locked"

C16_RemainingZeroStep ==
    \A h \in Finishing :
       ReachesCeiling(h)
          => \A d \in Added :
                /\ "attempts_remaining" \in DOMAIN d.result
                /\ d.result.attempts_remaining = 0

C17_LockedAtCeiling ==
    \A j \in DOMAIN jobs :
       jobs[j].status = "locked" => jobs[j].otp_attempts = jobs[j].max_otp_attempts

\* A call committing on a locked job is answered Locked and changes nothing.
C17_LockedStep ==
    \A h \in Finishing :
       jobs[h.job_id].status = "locked"
          => /\ \A d \in Added : d.result = LockedResult
             /\ jobs'[h.job_id] = jobs[h.job_id]

\* C17: for a job with status = locked, every verify call returns Locked
\* whatever secret it carries, the correct one included, never success, and
\* leaves the attempt counter at the ceiling.
C17_LockedStaysLocked == []C17_LockedAtCeiling /\ [][C17_LockedStep]_vars

\* The correct secret, supplied before the expiry, was refused by a locked job.
C17_Witness ==
    \E d \in Done :
       /\ CorrectSecret(d)
       /\ ~d.late
       /\ d.result = LockedResult
       /\ jobs[d.job_id].status = "locked"
       /\ jobs[d.job_id].otp_attempts = jobs[d.job_id].max_otp_attempts
       /\ Successes(d.job_id) = 0

\* A call with the job's secret committing on a pending job that its now() does
\* not find expired.
C18_SuccessStep ==
    \A h \in Finishing :
       ( /\ ~WrongSecret(h)
         /\ jobs[h.job_id].status = "pending"
         /\ ~(jobs[h.job_id].expires_at < h.txnow) )
       => /\ \A d \in Added : d.result = SuccessResult(jobs[h.job_id])
          /\ jobs'[h.job_id].status = "printed"
          /\ jobs'[h.job_id].printed_at = <<h.txnow>>
          /\ jobs'[h.job_id].otp_attempts = jobs[h.job_id].otp_attempts

\* C18: a verify call with the correct secret on a job that is pending and not
\* past its expiry returns success whatever the number of earlier failed
\* attempts, sets status = printed and the printed timestamp, and leaves the
\* attempt counter unchanged.
C18_CorrectSecretSucceeds == [][C18_SuccessStep]_vars

\* The job was printed after two failed attempts, which it still counts.
C18_Witness ==
    \E j \in DOMAIN jobs :
       /\ jobs[j].status = "printed"
       /\ jobs[j].printed_at # NULL
       /\ jobs[j].otp_attempts = jobs[j].max_otp_attempts - 1
       /\ AllReturned(j, jobs[j].max_otp_attempts)
       /\ Successes(j) = 1

\* The results of the two branches that follow the comparison of
\* hash_otp(provided_otp) with otp_hash.
ComparedResult(result) ==
    \/ result.success
    \/ result.error \in {"Invalid OTP", "Too many attempts. Job locked."}

\* Calls on job j whose secret was compared with the stored digest.
Compared(j) == CountIn(done, {d \in Done : d.job_id = j /\ ComparedResult(d.result)})

\* C19: over the whole life of a job and in every interleaving of callers, the
\* number of verify calls whose secret is compared with the stored digest is at
\* most the job's attempt ceiling.
C19_GuessesBounded == \A j \in DOMAIN jobs : Compared(j) <= jobs[j].max_otp_attempts

\* More calls than the ceiling were in flight on the job together, and as many
\* as the ceiling had their secret compared.
C19_Witness ==
    \E j \in DOMAIN jobs :
       /\ contended[j] = jobs[j].max_otp_attempts
       /\ AllReturned(j, jobs[j].max_otp_attempts + 1)
       /\ Compared(j) = jobs[j].max_otp_attempts

\* What a failing result says was done to the row of its job.
C20_Transition(row, result) ==
    IF result \in {AlreadyPrintedResult, LockedResult} THEN {row}
    ELSE IF result = ExpiredResult
    THEN IF row.status = "expired" THEN {row}
         ELSE {[row EXCEPT !.status = "expired"]}
    ELSE IF result.error = "Invalid OTP"
    THEN {[row EXCEPT !.otp_attempts = row.otp_attempts + 1]}
    ELSE IF result = JustLockedResult
    THEN {[row EXCEPT !.otp_attempts = row.otp_attempts + 1, !.status = "locked"]}
    ELSE {}

C20_FailureStep ==
    \A d \in Added :
       ~d.result.success
          => IF d.result = NotFoundResult
             THEN jobs' = jobs
             ELSE /\ jobs'[d.job_id] \in C20_Transition(jobs[d.job_id], d.result)
                  /\ d.result = ExpiredResult
                        => jobs[d.job_id].status \in {"pending", "expired"}
                  /\ \A k \in DOMAIN jobs : k # d.job_id => jobs'[k] = jobs[k]

\* C20: every failing verify call either leaves the job record unchanged
\* (NotFound, AlreadyPrinted, Locked on a locked job, Expired on an expired job)
\* or commits exactly the one transition its result names: Expired changes
\* only status, from pending to expired; InvalidSecret and the just-reached
\* Locked add exactly one to the attempt counter, and only the latter changes
\* status.
C20_FailureMatchesTransition == [][C20_FailureStep]_vars

\* A job that took one failed attempt and was then expired by a later call:
\* the counter still shows the one attempt.
C20_Witness ==
    \E d, e \in Done :
       /\ d.job_id = e.job_id
       /\ d.result = ExpiredResult
       /\ e.result.error = "Invalid OTP"
       /\ AllReturned(d.job_id, 2)
       /\ jobs[d.job_id].status = "expired"
       /\ jobs[d.job_id].otp_attempts = 1
       /\ jobs[d.job_id].access_token = OriginalToken(d.job_id)

\* A waiting call can take its row as soon as no call on the same job holds it,
\* whatever locks are held on other jobs; two calls never hold the same row.
C21_NoCrossWait ==
    /\ \A w \in BagToSet(waiting) :
          (w.job_id \in DOMAIN jobs /\ CallsOn(locked, w.job_id) = 0)
             => ENABLED VerifySelect(w)
    /\ \A j \in DOMAIN jobs : CallsOn(locked, j) <= 1

\* A committing call leaves every other job's row as it was.
C21_OtherRowsUntouched ==
    \A h \in Finishing :
       \A k \in DOMAIN jobs : k # h.job_id => jobs'[k] = jobs[k]

\* C21: a verify call on one job never waits for a lock held by a verify call
\* on a different job and never changes any field of a different job's record;
\* only calls on the same job serialize.
C21_PerJobLock == []C21_NoCrossWait /\ [][C21_OtherRowsUntouched]_vars

\* Calls on two different jobs hold their row locks at the same time, the first
\* having selected a job that is still pending.
C21_Witness ==
    \E g, h \in BagToSet(locked) :
       /\ g.job_id # h.job_id
       /\ g.job_record.status = "pending"
       /\ h.job_record.status = "pending"

\* Number of verify_otp calls started in a behaviour with an open print page.
MaxCallsPage == 3

NextPage ==
    \/ \E up \in Uploads : DOMAIN jobs = {} /\ CreateJob(up)
    \/ \E t \in 0..MaxTime : Tick(t)
    \/ \E job_id \in JobIds, otp \in Otps : VerifyBegin(job_id, otp, MaxCallsPage)
    \/ \E w \in BagToSet(waiting) : VerifySelect(w)
    \/ \E h \in BagToSet(locked) : VerifyFinish(h)
    \/ \E j \in DOMAIN jobs : PageOpen(AccessToken(j, 0))
    \/ \E otp \in Otps \cup {ShortOtp} : PageVerifyBegin(otp, MaxCallsPage)
    \/ \E rpcOk, streamUp, storageUp \in BOOLEAN : PageVerifyEnd(rpcOk, streamUp, storageUp)
    \/ PageClosePrint

SpecPage == Init /\ [][NextPage]_vars

\* A run of handleVerifyAndPrint ends in this step.
HandlerEnds == page.verifying /\ ~page'.verifying


C22_RenderAfterSuccess ==
    HandlerEnds =>
       /\ page'.sent # <<>> =>
             \E d \in PageCall :
                /\ d.result.success
                /\ "file_path" \in DOMAIN d.result
                /\ d.job_id = page.job[1].id
                /\ page'.sent[1] = [to |-> "print-stream",
                                    body |-> StreamRequest(d.result.file_path, page.job[1])]
       /\ (\A d \in PageCall : ~d.result.success) => page'.sent = <<>>
       /\ page'.toasts[1].type = "error" => page'.sent = <<>>

C22_NoRequestOtherwise ==
    /\ ~HandlerEnds => (page'.sent = page.sent \/ page'.sent = <<>>)
    /\ page'.verifying => page'.sent = <<>>

\* C22: the print page posts to print-stream only in the run of
\* handleVerifyAndPrint whose own verify_otp call on the page's job returned
\* success with a file path, and the request names that job and that path;
\* a run whose call failed, or whose rpc errored, issues no print-stream
\* request and no storage request, and none is issued before the call returns.
C22_RenderOnlyAfterVerify ==
    [][C22_RenderAfterSuccess /\ C22_NoRequestOtherwise]_vars

\* The page's first call failed, its second succeeded and the stream is shown.
C22_Witness ==
    /\ page.calls = 2
    /\ page.printHtml # NULL
    /\ page.sent # <<>>
    /\ \E d \in BagToSet(done) : d.client = <<1>> /\ ~d.result.success

\* The page handles, in this step, the InvalidSecret answer d to its call.
HandlesInvalidSecret(d) ==
    /\ HandlerEnds
    /\ d \in PageCall
    /\ "attempts_remaining" \in DOMAIN d.result
    /\ Len(page'.toasts) = 2
    /\ page'.toasts[2].type = "warning"

C23_LabelStep ==
    \A d \in BagToSet(done) :
       (HandlesInvalidSecret(d) /\ OtpFormShown(page')) =>
          /\ page'.toasts[2].message = AttemptsMessage(d.result.attempts_remaining)
          /\ AttemptsLabel(page') = d.result.attempts_remaining

\* C23: once the print page has handled an InvalidSecret answer, every
\* attempts-remaining figure it shows (the warning toast and the label under
\* the OTP field) equals the attempts_remaining of that answer, whatever
\* other clients did to the job since the page loaded it.
C23_DisplaysReturnedRemaining == [][C23_LabelStep]_vars

\* Number of verify_otp calls started in a behaviour with an open dashboard.
MaxCallsStore == 1

\* Copy counts a request body can carry beside the job's own: none, a negative
\* one and one above the table's bound.
OtherCopies == {0, 0 - 1, MaxCopies + 1}

\* The request bodies that name a job with its own file and settings, with
\* the job's copy count or another one.
JobRequests ==
    { [StreamRequest(jobs[j].file_path, jobs[j]) EXCEPT !.copies = c] :
         j \in DOMAIN jobs, c \in OtherCopies \cup {MinCopies} }

\* Inserts whose copy count did not pass through the settings form's clamp.
UnclampedUploads ==
    { [up EXCEPT !.settings = [@ EXCEPT !.copies = c]] :
         up \in Uploads, c \in {MinCopies - 1, MaxCopies + 1} }

\* The call budget beside the dashboard: calls are made while one job exists.
StoreCallLimit == IF Cardinality(DOMAIN jobs) > 1 THEN 0 ELSE MaxCallsStore

\* Every operation of the repository on the table and the bucket besides the
\* print page: uploads, verify calls, the dashboard, the login and the gateway.
NextStore ==
    \/ \E up \in Uploads \cup UnclampedUploads :
          /\ DOMAIN jobs # {} => started = 0
          /\ CreateJob(up)
    \/ \E t \in 0..MaxTime : Tick(t)
    \/ \E job_id \in JobIds, otp \in Otps \cup {ShortOtp} :
          VerifyBegin(job_id, otp, StoreCallLimit)
    \/ \E w \in BagToSet(waiting) : VerifySelect(w)
    \/ \E h \in BagToSet(locked) : VerifyFinish(h)
    \/ \E sessionId \in Sessions : DashboardOpen(sessionId)
    \/ DashboardRefresh
    \/ DashboardExpiryTick
    \/ \E i \in 1..Len(JobSeq), storageUp \in BOOLEAN : DashboardPreview(i, storageUp)
    \/ ClearJobs
    \/ \E userId \in Users : HandleUserLogin(userId)
    \/ \E req \in JobRequests, storageUp \in BOOLEAN : PrintStream(req, storageUp)

SpecStore == Init /\ [][NextStore]_vars

(* ----------------------- verify_otp, fairly scheduled ----------------- *)

\* The verify calls made in one behaviour of the fair specification.
MaxCallsFair == 2

\* The jobs are created, then calls are made on them and on an unknown id.
NextFair ==
    \/ \E up \in Uploads : started = 0 /\ CreateJob(up)
    \/ \E t \in 0..MaxTime : Tick(t)
    \/ \E job_id \in JobIds \cup {UnknownId}, otp \in Otps :
          VerifyBegin(job_id, otp, MaxCallsFair)
    \/ \E w \in BagToSet(waiting) : VerifySelect(w)
    \/ \E h \in BagToSet(locked) : VerifyFinish(h)

\* A transaction that holds the row runs to its commit: nothing in verify_otp
\* waits once the SELECT ... FOR UPDATE has returned.
HolderRuns(job_id) ==
    WF_vars(\E h \in BagToSet(locked) : h.job_id = job_id /\ VerifyFinish(h))

\* The row lock is granted fairly: a row that is free again and again is
\* given to some call that waits for it.
LockGranted(job_id) ==
    SF_vars(\E w \in BagToSet(waiting) : w.job_id = job_id /\ VerifySelect(w))

SpecFair ==
    /\ Init
    /\ [][NextFair]_vars
    /\ \A job_id \in JobIds : HolderRuns(job_id)
    /\ \A job_id \in JobIds \cup {UnknownId} : LockGranted(job_id)

(* ------------------- the gateway on one job's own file ---------------- *)

\* The verify calls made on the job, and the largest number of copies asked for.
MaxCallsGateway == 1
MaxCopiesAsked == 3

\* Paper-size names a caller can post: two of the table's, one that no object
\* has, one that every object inherits.
PaperNames == {"A3", "Legal", "A5", "constructor"}

\* Requests for a job's own file with a number of copies, a paper size and an
\* orientation of the caller's choosing.
PaperRequests ==
    { [StreamRequest(jobs[j].file_path, jobs[j]) EXCEPT !.copies = c,
                                                        !.paperSize = s,
                                                        !.orientation = o] :
         j \in DOMAIN jobs, c \in MinCopies..MaxCopiesAsked,
         s \in PaperNames, o \in {"portrait", "landscape"} }

\* A file the upload form accepts by its type (image/jpeg) whose name does not
\* end in jpg, jpeg or png.
RenamedUploads ==
    { [name |-> "c.jfif", type |-> "image/jpeg", ext |-> "jfif", session |-> "s1",
       otp |-> "123456", settings |-> DEFAULT_PRINT_SETTINGS] }

\* One job is created, verify calls are made on it, and print-stream is asked
\* for its file under the job's own settings or under the caller's.
NextGateway ==
    \/ \E up \in Uploads \cup RenamedUploads :
          /\ DOMAIN jobs = {}
          /\ CreateJob(up)
    \/ \E t \in 0..MaxTime : Tick(t)
    \/ \E job_id \in JobIds, otp \in Otps : VerifyBegin(job_id, otp, MaxCallsGateway)
    \/ \E w \in BagToSet(waiting) : VerifySelect(w)
    \/ \E h \in BagToSet(locked) : VerifyFinish(h)
    \/ \E j \in DOMAIN jobs, storageUp \in BOOLEAN :
          PrintStream(StreamRequest(jobs[j].file_path, jobs[j]), storageUp)
    \/ \E req \in PaperRequests :
          /\ PrintStreamResponse(req, TRUE).status = 200
          /\ PrintStream(req, TRUE)

SpecGateway == Init /\ [][NextGateway]_vars

\* C24: objects of the print-files bucket are downloaded by print-stream
\* alone: the print page never asks the bucket for a file itself, and the
\* dashboard's preview never does.
C24_OnlyRenderReadsStore ==
    /\ \A i \in DOMAIN page.sent : page.sent[i].to # "storage"
    /\ dashboard.preview = NULL

\* C25: a print-stream request whose copy count is below 1 or above 50 is
\* answered 400 and gets no document.
C25_CopiesOutOfBoundsRejected ==
    (/\ reply.op = "print-stream"
     /\ (reply.copies < MinCopies \/ reply.copies > MaxCopies))
       => /\ reply.result.status = 400
          /\ "html" \notin DOMAIN reply.result.body

\* toast.error('Please enter a valid 6-digit OTP'): the validation error of
\* the repository.
ValidationError == "Please enter a valid 6-digit OTP"

C26_MalformedStep ==
    \A h \in Finishing :
       Len(h.provided_otp) # 6 =>
          /\ jobs'[h.job_id] = jobs[h.job_id]
          /\ \A d \in Added : d.result = [success |-> FALSE, error |-> ValidationError]

\* C26: a verify_otp call whose secret is not six digits long is answered
\* with the validation error and leaves the job's row as it was: no attempt
\* is counted and the job cannot become locked by it.
C26_MalformedSecretRejected == [][C26_MalformedStep]_vars

C27_SameDigest ==
    \A j \in DOMAIN jobs :
       \A s \in Otps \cup {ShortOtp} :
          /\ (hash_otp(s) = jobs[j].otp_hash) <=> (s = jobs[j].otp_plain)
          /\ (hashOTP(s) = jobs[j].otp_hash) <=> (s = jobs[j].otp_plain)

C27_MatchStep ==
    \A d \in Added : d.result.success => d.provided_otp = jobs[d.job_id].otp_plain

\* C27: the digest stored with a job when it was created equals the digest
\* verify_otp (or the browser's hashOTP) computes of a secret exactly when that
\* secret is the plaintext generated for the job; a secret that differs from
\* it in one character, or lacks one, has another digest and never succeeds.
C27_DigestAgrees == []C27_SameDigest /\ [][C27_MatchStep]_vars

\* On one job the generated secret succeeded and a secret differing in its
\* last character was refused as invalid.
C27_Witness ==
    \E d, e \in BagToSet(done) :
       /\ d.job_id = e.job_id
       /\ d.result.success
       /\ "attempts_remaining" \in DOMAIN e.result
       /\ e.provided_otp # d.provided_otp

\* The jobs inserted in this step.
Created == DOMAIN jobs' \ DOMAIN jobs

C28_CreationStep ==
    \A j \in Created :
       /\ jobs'[j].status = "pending"
       /\ jobs'[j].otp_attempts = 0
       /\ jobs'[j].max_otp_attempts = 3
       /\ jobs'[j].printed_at = NULL
       /\ jobs'[j].created_at = now
       /\ jobs'[j].expires_at = now + 30

C28_CopiesInBounds == \A j \in DOMAIN jobs : jobs[j].copies \in 1..50

\* C28: a job is inserted pending, with no attempt made, a ceiling of three
\* attempts, no printed_at and an expires_at thirty minutes after its
\* created_at; and the copies of every row of the table lie in 1..50.
C28_CreatedPending == []C28_CopiesInBounds /\ [][C28_CreationStep]_vars

\* Two jobs are stored, one created later than the other and asking for
\* more than one copy.
C28_Witness ==
    \E j, k \in DOMAIN jobs :
       /\ jobs[j].created_at < jobs[k].created_at
       /\ jobs[k].expires_at = jobs[k].created_at + 30
       /\ \E i \in {j, k} : jobs[i].copies > 1

\* The columns the verification procedure owns.
VerifyColumns == {"status", "otp_attempts", "printed_at", "access_token"}

C29_WriteStep ==
    \A j \in DOMAIN jobs :
       Project(jobs'[j], VerifyColumns) # Project(jobs[j], VerifyColumns)
          => \E h \in Finishing : h.job_id = j

\* C29: the status, otp_attempts, printed_at and access_token of a stored job
\* change only in the commit of a verify_otp call on that job: the session
\* merge of a login, the listings, the dashboard's expiry interval, the
\* preview and print-stream leave them as they are in the table.
C29_OnlyVerifyWrites == [][C29_WriteStep]_vars

\* A job printed by verify_otp was merged into a user's account by a login,
\* rendered by print-stream, and the dashboard lists it.
C29_Witness ==
    \E j \in DOMAIN jobs :
       /\ jobs[j].status = "printed"
       /\ jobs[j].session_id \in Users
       /\ reply.op = "print-stream"
       /\ reply.jobId = j
       /\ reply.result.status = 200
       /\ \E i \in DOMAIN dashboard.jobs : dashboard.jobs[i].id = j

\* The columns set when the job is created.
CreationColumns ==
    {"file_path", "file_name", "file_type", "copies", "color_mode", "paper_size",
     "orientation", "otp_hash", "otp_plain", "created_at", "expires_at"}

C30_FrameStep ==
    \A h \in Finishing :
       /\ Project(jobs'[h.job_id], CreationColumns)
             = Project(jobs[h.job_id], CreationColumns)
       /\ Project(jobs'[h.job_id], CreationColumns)
             = Project(h.job_record, CreationColumns)

\* C30: the commit of a verify_otp call, whichever branch it took, leaves the
\* job's file_path, file_name, file_type, copies, color_mode, paper_size,
\* orientation, otp_hash, otp_plain, created_at and expires_at as they were
\* when the call read the row.
C30_VerifyKeepsCreationColumns == [][C30_FrameStep]_vars

\* Verify calls on one job took the mismatch branch, then the match branch,
\* then the already-printed branch.
C30_Witness ==
    \E j \in DOMAIN jobs :
       /\ jobs[j].status = "printed"
       /\ jobs[j].otp_attempts >= 1
       /\ \E d \in BagToSet(done) : d.job_id = j /\ d.result = AlreadyPrintedResult

\* What one application of the expiry check is said to do to a row.
Expired(row) ==
    IF row.status = "pending" THEN [row EXCEPT !.status = "expired"] ELSE row

\* The commit of a verify_otp call whose transaction began past the expiry.
C31_LateStep ==
    \A h \in Finishing :
       h.job_record.expires_at < h.txnow =>
          /\ jobs'[h.job_id] = Expired(jobs[h.job_id])
          /\ Expired(jobs'[h.job_id]) = jobs'[h.job_id]

\* Once a late call has returned its job is not pending, however many other
\* late calls on it are still waiting, hold the row or have returned; and the
\* dashboard's local check, applied to any row, is the same applied twice and
\* leaves a printed or locked row as it is.
C31_LateState ==
    /\ \A d \in Done :
          d.late /\ d.job_id \in DOMAIN jobs => jobs[d.job_id].status # "pending"
    /\ \A j \in DOMAIN jobs :
          /\ ExpireLocally(ExpireLocally(jobs[j])) = ExpireLocally(jobs[j])
          /\ jobs[j].expires_at < now => ExpireLocally(jobs[j]) = Expired(jobs[j])
          /\ jobs[j].status \in {"printed", "locked"} => ExpireLocally(jobs[j]) = jobs[j]

\* C31: the passive expiry check is idempotent and safe under redundancy: each
\* verify_otp call that began past the expiry, from any caller and in any
\* interleaving, turns a pending job into an expired one and leaves every other
\* job, a printed or locked one included, exactly as it was; applying it again
\* changes nothing; the dashboard's local check does the same to its copy.
C31_ExpiryCheckIdempotent == []C31_LateState /\ [][C31_LateStep]_vars

\* Three late calls on one job have returned and the job is expired.
C31_Witness ==
    \E j \in DOMAIN jobs :
       /\ jobs[j].status = "expired"
       /\ CountIn(done, {d \in Done : d.job_id = j /\ d.late}) >= 3

\* The number of positions of a sequence that hold the element e.
Occurrences(seq, e) == Cardinality({k \in DOMAIN seq : seq[k] = e})

\* body is block repeated c times with one page break between each two
\* consecutive repetitions and nothing else.
CopiesShape(body, block, c) ==
    /\ Occurrences(body, block) = c
    /\ Occurrences(body, PageBreak) = c - 1
    /\ Len(body) = 2 * c - 1
    /\ \A k \in DOMAIN body : (body[k] = PageBreak) <=> (k % 2 = 0)
    /\ body[Len(body)] = block

\* C32: a render answered 200 for a request with copies c >= 1 carries the
\* content block exactly c times and exactly c - 1 page-break markers, one
\* between each two consecutive copies and none after the last; the same
\* holds of that block for every number of copies up to MaxCopiesAsked.
C32_CopiesAndBreaks ==
    (reply # NoReply /\ reply.op = "print-stream" /\ reply.result.status = 200
       /\ reply.copies >= 1) =>
       LET body == reply.result.body.html.body IN
       /\ CopiesShape(body, body[1], reply.copies)
       /\ \A c \in MinCopies..MaxCopiesAsked :
             CopiesShape(CopiesHtml(body[1], c), body[1], c)

\* A render answered 200 for more than one copy: the body has a page break.
C32_Witness ==
    /\ reply # NoReply
    /\ reply.op = "print-stream"
    /\ reply.result.status = 200
    /\ reply.copies > 1
    /\ \E k \in DOMAIN reply.result.body.html.body :
          reply.result.body.html.body[k] = PageBreak

\* The content types the upload form accepts.
ImageTypes == {"image/jpeg", "image/png"}
DocumentTypes == {"application/pdf"}

\* C33: a render answered 200 for job J embeds J's file as an image when J's
\* declared type (file_type) is an image type and in the document viewer when
\* it is PDF, and renders empty content only when the declared type is neither.
C33_ClassifiedByDeclaredType ==
    (reply # NoReply /\ reply.op = "print-stream" /\ reply.result.status = 200
       /\ reply.copies >= 1) =>
       LET block == reply.result.body.html.body[1]
           file_type == jobs[reply.jobId].file_type IN
       /\ file_type \in ImageTypes => block.tag = "img"
       /\ file_type \in DocumentTypes => block.tag = "iframe"
       /\ block.tag = "none" => file_type \notin ImageTypes \cup DocumentTypes

\* The table of named paper sizes, as (width, height).
SizeTable ==
    [A4 |-> <<"210mm", "297mm">>, A3 |-> <<"297mm", "420mm">>,
     Letter |-> <<"8.5in", "11in">>, Legal |-> <<"8.5in", "14in">>]

\* The page size the table gives for a name and an orientation, A4 standing
\* in for a name the table does not have.
TableSize(name, orientation) ==
    LET size == IF name \in DOMAIN SizeTable THEN SizeTable[name] ELSE SizeTable["A4"] IN
    IF orientation = "landscape" THEN <<size[2], size[1]>> ELSE size

\* C34: the page size of a document rendered with status 200 is, for portrait,
\* the (width, height) the table {A4, A3, Letter, Legal} gives for the requested
\* name, for landscape the transposed pair, and for a name the table does not
\* have the A4 pair.
C34_PageSizeFromTable ==
    (reply # NoReply /\ reply.op = "print-stream" /\ reply.result.status = 200) =>
       reply.result.body.html.size = TableSize(reply.paperSize, reply.orientation)

\* The same for every requested name that no object inherits.
C34_ExceptInheritedNames ==
    (reply # NoReply /\ reply.op = "print-stream" /\ reply.result.status = 200
       /\ reply.paperSize \notin ObjectPrototypeKeys) =>
       reply.result.body.html.size = TableSize(reply.paperSize, reply.orientation)

\* Renders of a landscape page and of a name the table does not have.
C34_Landscape ==
    /\ reply # NoReply /\ reply.op = "print-stream" /\ reply.result.status = 200
    /\ reply.orientation = "landscape"
    /\ reply.paperSize = "Legal"
    /\ reply.result.body.html.size = <<"14in", "8.5in">>

C34_Fallback ==
    /\ reply # NoReply /\ reply.op = "print-stream" /\ reply.result.status = 200
    /\ reply.paperSize = "A5"
    /\ reply.result.body.html.size = <<"210mm", "297mm">>

\* The content block carries a watermark naming the job and an instant.
Stamped(block, jobId) ==
    /\ "watermark" \in DOMAIN block
    /\ block.watermark.job = jobId
    /\ block.watermark.printed \in 0..MaxTime

\* C35: every document the print page displays for printing after a successful
\* verify, whether print-stream returned it or the page built it itself from
\* the downloaded file, carries on each copy a watermark with the first eight
\* characters of the job id and an issuance timestamp.
C35_EveryDocumentWatermarked ==
    page.printHtml # NULL =>
       LET doc == page.printHtml[1] IN
       /\ "stream" \in DOMAIN doc
       /\ \A k \in DOMAIN doc.stream.body :
             doc.stream.body[k] # PageBreak => Stamped(doc.stream.body[k], page.job[1].id)

\* The same for the documents print-stream returned.
C35_GatewayDocumentsWatermarked ==
    (page.printHtml # NULL /\ "stream" \in DOMAIN page.printHtml[1]) =>
       \A k \in DOMAIN page.printHtml[1].stream.body :
          page.printHtml[1].stream.body[k] # PageBreak
             => Stamped(page.printHtml[1].stream.body[k], page.job[1].id)

\* C36: whenever print-stream answers 200 for a request naming job J, the bytes
\* it downloaded and embedded are those stored under J's own file_path, so that
\* the id of a printed job paired with another job's path does not obtain that
\* other job's file.
C36_EmbedsOwnFile ==
    (reply # NoReply /\ reply.op = "print-stream" /\ reply.result.status = 200) =>
       /\ reply.download = <<jobs[reply.jobId].file_path>>
       /\ \A k \in DOMAIN reply.result.body.html.body :
             "data" \in DOMAIN reply.result.body.html.body[k]
                => reply.result.body.html.body[k].data
                     = files[jobs[reply.jobId].file_path]

\* C37: in every reachable state a job's printed timestamp is set if and only
\* if its status is printed.
C37_PrintedAtIffPrinted ==
    \A j \in DOMAIN jobs : (jobs[j].printed_at # NULL) <=> (jobs[j].status = "printed")

\* One job is printed and stamped while another has expired without a stamp.
C37_Witness ==
    \E j, k \in DOMAIN jobs :
       /\ jobs[j].status = "printed" /\ jobs[j].printed_at # NULL
       /\ jobs[k].status = "expired" /\ jobs[k].printed_at = NULL

\* Some call is waiting or holds a row, and then some call can take a step.
C38_NoDeadlock ==
    (waiting # EmptyBag \/ locked # EmptyBag) =>
       \/ ENABLED (\E w \in BagToSet(waiting) : VerifySelect(w))
       \/ ENABLED (\E h \in BagToSet(locked) : VerifyFinish(h))

\* C38: under fair scheduling of the row lock every verify_otp call eventually
\* returns: whenever n calls have been made, on the same job or on different
\* ones, eventually n calls have returned, and in no state are calls pending
\* while none of them can proceed.
C38_EveryCallReturns ==
    /\ []C38_NoDeadlock
    /\ \A n \in 1..MaxCallsFair : (started >= n) ~> (BagCardinality(done) >= n)

\* Two calls on one job were in flight at once, one waiting for the row the
\* other held, and both have returned.
C38_Witness ==
    \E j \in DOMAIN jobs :
       /\ contended[j] >= 1
       /\ AllReturned(j, MaxCallsFair)

\* C39: the print page is in its print-success state only when a verify_otp
\* call issued by the page has returned success; in particular a 'closePrint'
\* message that arrives while no print document is displayed does not put the
\* page in that state for a job that is still pending.
C39_SuccessOnlyAfterOwnVerify ==
    page.printSuccess =>
       \E d \in Done : d.client # NULL /\ d.result.success

====
